---- MODULE Spec2Model ----
(***************************************************************************)
(* prep-spatial-data.py: a top-to-bottom batch script.                     *)
(*   1. download the trails GeoJSON, 2. download the river GeoJSON,        *)
(*   3. merge the river into one MultiLineString, 4. sum the great-circle  *)
(*   length of every trail object (GEOMETRYID) and write it as CSV.        *)
(*                                                                         *)
(* Numbers: the script computes in IEEE doubles.  The model computes in    *)
(* fixed point: an angle in radians or a unitless ratio v is the integer   *)
(* v * Scale, a distance is a whole number of miles.  At that unit two      *)
(* points less than a few degrees apart are 0 miles apart, so the inputs   *)
(* are points ten degrees apart and more.                                  *)
(*                                                                         *)
(* An exception ends the run: exc names it and pc stays where it was       *)
(* raised.                                                                 *)
(***************************************************************************)
EXTENDS Integers, Sequences, FiniteSets, TLC

VARIABLES
    pc,            \* the statement group the script is about to run
    exc,           \* "none", or the exception that ended the run at pc
    fs,            \* the working directory: file name -> content
    fs0,           \* the working directory as the run found it
    r,             \* the module-level name r: the last response received
    reqs,          \* the GET requests sent so far, in order
    stdout,        \* the diagnostics printed so far
    writes,        \* the files written so far, in order
    river,         \* the geometry column read from river_file
    split_lines,   \* the LineStrings collected so far
    i,             \* the loop variable of the river loop (0-based)
    river_merged,  \* the single MultiLineString
    data,          \* the features of the parsed trails file
    df,            \* the trail data frame
    df_sum         \* the per-GEOMETRYID totals

vars == <<pc, exc, fs, fs0, r, reqs, stdout, writes, river, split_lines, i,
          river_merged, data, df, df_sum>>

(***************************************************************************)
(* Bounds of the model.                                                    *)
(***************************************************************************)
\* trail inputs: records + coordinates of one trails file, in total
MaxSize == 6
\* river inputs: geometry nodes (lines and multi-lines) of one river file
MaxNodes == 5

(***************************************************************************)
(* File names (lines 68-71).                                               *)
(***************************************************************************)
river_file == "rivers_streams_atlanta_region_chattahoochee.geojson"
\* river_file.replace('.', '_merged.'): the name holds one '.'
river_file_merged == "rivers_streams_atlanta_region_chattahoochee_merged.geojson"
trails_file == "nps_trails_web_mercator.geojson"
trails_file_dist == "nps_trails_distance.csv"

Files == {river_file, river_file_merged, trails_file, trails_file_dist}

\* the minimum length of str(r.json()) the script accepts
TrailsMinLen == 1000
RiverMinLen == 500

(***************************************************************************)
(* Values.  A document is the text of a response or of a file, together    *)
(* with what parsing it gives: json says whether it parses as JSON, serLen *)
(* is len(str(...)) of the parsed value, kind tells a feature collection   *)
(* from an error object; trails / geoms are the features it holds, rows    *)
(* the table of a CSV.                                                     *)
(***************************************************************************)
Null == 0          \* None / NaN in an identifier column
NaN == <<>>        \* NaN in a coordinates column

Doc(kind, json, serLen, trails, geoms, rows) ==
    [kind |-> kind, json |-> json, serLen |-> serLen,
     trails |-> trails, geoms |-> geoms, rows |-> rows]

NoFile == Doc("absent", FALSE, 0, <<>>, <<>>, <<>>)
Html == Doc("html", FALSE, 0, <<>>, <<>>, <<>>)
ErrJson == Doc("error", TRUE, 60, <<>>, <<>>, <<>>)
TrailsDoc(trails, serLen) == Doc("features", TRUE, serLen, trails, <<>>, <<>>)
RiverDoc(geoms, serLen) == Doc("features", TRUE, serLen, <<>>, geoms, <<>>)
MergedDoc(geom) == Doc("features", TRUE, 0, <<>>, <<geom>>, <<>>)
CsvDoc(rows) == Doc("csv", FALSE, 0, <<>>, <<>>, rows)

Response(status_code, body) == [status_code |-> status_code, body |-> body]
NoResponse == Response(0, NoFile)

LineString(id) == [geom_type |-> "LineString", id |-> id, geoms |-> <<>>]
MultiLineString(lines) ==
    [geom_type |-> "MultiLineString", id |-> 0, geoms |-> lines]

Trail(id, coordinates) == [GEOMETRYID |-> id, coordinates |-> coordinates]

Range(s) == {s[k] : k \in 1..Len(s)}

RECURSIVE Concat(_)
Concat(ss) == IF ss = <<>> THEN <<>> ELSE Head(ss) \o Concat(Tail(ss))

(***************************************************************************)
(* The order of the statement groups of the script (lines 74-153).         *)
(***************************************************************************)
\* as below, with the trail distances ahead of the river merge
goto_trails_first(stage) ==
    CASE stage = "get_trails" -> "get_river"
      [] stage = "get_river" -> "load_trails"
      [] stage = "read_river" -> "split_loop"
      [] stage = "split_loop" -> "done"
      [] stage = "load_trails" -> "explode"
      [] stage = "explode" -> "pair"
      [] stage = "pair" -> "split_cols"
      [] stage = "split_cols" -> "distance"
      [] stage = "distance" -> "groupby"
      [] stage = "groupby" -> "to_csv"
      [] stage = "to_csv" -> "read_river"
goto(stage) ==
    CASE stage = "get_trails" -> "get_river"
      [] stage = "get_river" -> "read_river"
      [] stage = "read_river" -> "split_loop"
      [] stage = "split_loop" -> "load_trails"
      [] stage = "load_trails" -> "explode"
      [] stage = "explode" -> "pair"
      [] stage = "pair" -> "split_cols"
      [] stage = "split_cols" -> "distance"
      [] stage = "distance" -> "groupby"
      [] stage = "groupby" -> "to_csv"
      [] stage = "to_csv" -> "done"

(***************************************************************************)
(* Downloads (lines 80-99).                                                *)
(***************************************************************************)
\* r.json() raises when the body is not JSON; `and` evaluates it only
\* after status_code == 200 (lines 82, 94)
json_raises(resp) == resp.status_code = 200 /\ ~resp.body.json

\* as below, with >= for >
accepted_ge(resp, min_len) ==
    resp.status_code = 200 /\ resp.body.serLen >= min_len
\* r.status_code == 200 and len(str(r.json())) > min_len
accepted(resp, min_len) ==
    resp.status_code = 200 /\ resp.body.serLen > min_len

\* as below, but a turned-down response overwrites the file too
save_truncating(files, name, resp, min_len) ==
    IF accepted(resp, min_len) THEN [files EXCEPT ![name] = resp.body]
    ELSE [files EXCEPT ![name] = Html]
\* with open(name, 'w') as f: f.write(r.text)   -- only on the accepted branch
save(files, name, resp, min_len) ==
    IF accepted(resp, min_len) THEN [files EXCEPT ![name] = resp.body]
    ELSE files

\* print('An error occurred downloading ... data: ' + status + ' (' + text + ')')
report(out, what, resp, min_len) ==
    IF accepted(resp, min_len) THEN out
    ELSE Append(out, [what |-> what, status_code |-> resp.status_code,
                      text |-> resp.body])

SampleTrails ==
    { <<Trail(1, << <<0, 0>>, <<0, 10>>, <<0, 10>> >>),
        Trail(2, << <<10, 20>>, <<0, 0>> >>)>>,
      <<Trail(1, << <<0, 0>> >>)>> }

SampleRiver ==
    { <<MultiLineString(<<MultiLineString(<<LineString(1), LineString(2)>>),
                          LineString(3)>>),
        LineString(1)>>,
      <<LineString(2)>> }

StatusCodes == {200, 404}

TrailBodies ==
    {Html, ErrJson}
    \cup {TrailsDoc(t, n) : t \in SampleTrails,
                            n \in {TrailsMinLen, TrailsMinLen + 1}}
RiverBodies ==
    {Html, ErrJson}
    \cup {RiverDoc(g, n) : g \in SampleRiver,
                           n \in {RiverMinLen, RiverMinLen + 1}}

Responses(what) ==
    {Response(s, b) : s \in StatusCodes,
                      b \in IF what = "trail" THEN TrailBodies ELSE RiverBodies}

\* r = requests.get(url); if ...: write else: print
Fetch(what, name, min_len, next_pc) ==
    /\ exc = "none"
    /\ reqs' = Append(reqs, what)
    /\ \E resp \in Responses(what) :
         /\ r' = resp
         /\ IF json_raises(resp)
            THEN /\ exc' = "JSONDecodeError"
                 /\ UNCHANGED <<pc, fs, stdout, writes>>
            ELSE /\ exc' = exc
                 /\ pc' = next_pc
                 /\ fs' = save(fs, name, resp, min_len)
                 /\ writes' = IF accepted(resp, min_len)
                              THEN Append(writes, name) ELSE writes
                 /\ stdout' = report(stdout, what, resp, min_len)
    /\ UNCHANGED <<fs0, river, split_lines, i, river_merged, data, df, df_sum>>

\* requests.get raises (no connection, timeout): r is not assigned
FetchRaises(what) ==
    /\ exc = "none"
    /\ reqs' = Append(reqs, what)
    /\ exc' = "ConnectionError"
    /\ UNCHANGED <<pc, fs, fs0, r, stdout, writes, river, split_lines, i,
                   river_merged, data, df, df_sum>>

GetTrails ==
    /\ pc = "get_trails"
    /\ \/ Fetch("trail", trails_file, TrailsMinLen, goto("get_trails"))
       \/ FetchRaises("trail")

GetRiver ==
    /\ pc = "get_river"
    /\ \/ Fetch("river", river_file, RiverMinLen, goto("get_river"))
       \/ FetchRaises("river")

(***************************************************************************)
(* River merge (lines 30-41, 106-118).                                     *)
(***************************************************************************)
\* as below, without the recursion: nested multi-lines are dropped
split_outer_only(geom_obj) ==
    Concat([k \in 1..Len(geom_obj.geoms) |->
              IF geom_obj.geoms[k].geom_type = "MultiLineString"
              THEN <<>>
              ELSE <<geom_obj.geoms[k]>>])
RECURSIVE split_multilinestring(_)
\* for line in geom_obj: recurse into a MultiLineString, else append
split_multilinestring(geom_obj) ==
    Concat([k \in 1..Len(geom_obj.geoms) |->
              IF geom_obj.geoms[k].geom_type = "MultiLineString"
              THEN split_multilinestring(geom_obj.geoms[k])
              ELSE <<geom_obj.geoms[k]>>])

\* geopandas.read_file opens a GeoJSON feature collection and nothing else
readable(doc) == doc.kind = "features"

\* river = geopandas.read_file(river_file); split_lines = []
ReadRiver ==
    /\ pc = "read_river" /\ exc = "none"
    /\ IF readable(fs[river_file])
       THEN /\ river' = fs[river_file].geoms
            /\ split_lines' = <<>>
            /\ i' = 0
            /\ pc' = goto("read_river")
            /\ exc' = exc
       ELSE /\ exc' = "DriverError"
            /\ UNCHANGED <<pc, river, split_lines, i>>
    /\ UNCHANGED <<fs, fs0, r, reqs, stdout, writes, river_merged, data, df,
                   df_sum>>

\* one iteration of: for i in range(len(river))
SplitLoop ==
    /\ pc = "split_loop" /\ exc = "none"
    /\ i < Len(river)
    /\ split_lines' =
         IF river[i + 1].geom_type = "MultiLineString"
         THEN split_lines \o split_multilinestring(river[i + 1])
         ELSE Append(split_lines, river[i + 1])
    /\ i' = i + 1
    /\ UNCHANGED <<pc, exc, fs, fs0, r, reqs, stdout, writes, river,
                   river_merged, data, df, df_sum>>

\* river_merged = GeoSeries(MultiLineString(split_lines)); river_merged.to_file
MergeRiver ==
    /\ pc = "split_loop" /\ exc = "none"
    /\ i = Len(river)
    /\ river_merged' = MultiLineString(split_lines)
    /\ fs' = [fs EXCEPT ![river_file_merged] = MergedDoc(river_merged')]
    /\ writes' = Append(writes, river_file_merged)
    /\ pc' = goto("split_loop")
    /\ UNCHANGED <<exc, fs0, r, reqs, stdout, river, split_lines, i, data, df,
                   df_sum>>

(***************************************************************************)
(* haversine (lines 44-65) in fixed point.  np.sin, np.cos, np.sqrt and    *)
(* np.arctan2 are computed to the unit 1/Scale: sine and cosine by their   *)
(* power series, the square root by bisection, the arc tangent as the      *)
(* inverse of the tangent on the first quadrant (both arguments of         *)
(* arctan2 are square roots here, so no other quadrant occurs).            *)
(***************************************************************************)
Scale == 10000
PiFx == 31416
\* earth_radius = 3958.756 miles, in thousandths of a mile
earth_radius == 3958756

mul(a, b) == (a * b) \div Scale

deg2rad(x) == (x * PiFx) \div 180

RECURSIVE series(_, _, _, _)
\* term - term*x2/((k+1)(k+2)) + ... : n terms
series(x2, term, k, n) ==
    IF n = 0 THEN 0
    ELSE term + series(x2, (0 - mul(term, x2)) \div ((k + 1) * (k + 2)),
                       k + 2, n - 1)

sin(x) == series(mul(x, x), x, 1, 8)
cos(x) == series(mul(x, x), Scale, 0, 8)

RECURSIVE bisect_sqrt(_, _, _)
bisect_sqrt(v, lo, hi) ==
    IF lo = hi THEN lo
    ELSE LET mid == (lo + hi + 1) \div 2
         IN  IF mid * mid <= v THEN bisect_sqrt(v, mid, hi)
             ELSE bisect_sqrt(v, lo, mid - 1)

sqrt(a) == bisect_sqrt(a * Scale, 0, Scale)

RECURSIVE bisect_arctan2(_, _, _, _)
\* the largest angle t in lo..hi with tan(t) <= y/x
bisect_arctan2(y, x, lo, hi) ==
    IF lo = hi THEN lo
    ELSE LET mid == (lo + hi + 1) \div 2
         IN  IF sin(mid) * x <= cos(mid) * y
             THEN bisect_arctan2(y, x, mid, hi)
             ELSE bisect_arctan2(y, x, lo, mid - 1)

arctan2(y, x) == IF y = 0 THEN 0 ELSE bisect_arctan2(y, x, 0, PiFx \div 2)

\* as below, with the longitudes added where they are subtracted
haversine_lon_sum(o_lat, o_lon, d_lat, d_lon) ==
    LET lat_diff == deg2rad(d_lat) - deg2rad(o_lat)
        lon_diff == deg2rad(d_lon) + deg2rad(o_lon)
        sin_lat == sin(lat_diff \div 2)
        sin_lon == sin(lon_diff \div 2)
        a == mul(sin_lat, sin_lat)
             + mul(mul(cos(deg2rad(o_lat)), cos(deg2rad(d_lat))),
                   mul(sin_lon, sin_lon))
        c == 2 * arctan2(sqrt(a), sqrt(Scale - a))
    IN  ((earth_radius \div 1000) * c + ((earth_radius % 1000) * c) \div 1000)
        \div Scale

\* lines 53-65
haversine(o_lat, o_lon, d_lat, d_lon) ==
    LET lat_diff == deg2rad(d_lat) - deg2rad(o_lat)
        lon_diff == deg2rad(d_lon) - deg2rad(o_lon)
        sin_lat == sin(lat_diff \div 2)
        sin_lon == sin(lon_diff \div 2)
        a == mul(sin_lat, sin_lat)
             + mul(mul(cos(deg2rad(o_lat)), cos(deg2rad(d_lat))),
                   mul(sin_lon, sin_lon))
        c == 2 * arctan2(sqrt(a), sqrt(Scale - a))
    IN  ((earth_radius \div 1000) * c + ((earth_radius % 1000) * c) \div 1000)
        \div Scale

(***************************************************************************)
(* Trail distances (lines 125-153).  A data frame is a sequence of rows,   *)
(* a row a record of its columns; index is the frame's index label, which  *)
(* explode repeats and reset_index turns into a column.                    *)
(***************************************************************************)
\* json_normalize(data['features'])[[GEOMETRYID, coordinates]]
json_normalize(features) ==
    [k \in 1..Len(features) |->
        [index |-> k - 1,
         GEOMETRYID |-> features[k].GEOMETRYID,
         coordinates |-> features[k].coordinates]]

\* df.explode('coordinates'): one row per list element, NaN for an empty list
explode(frame) ==
    Concat([k \in 1..Len(frame) |->
              IF frame[k].coordinates = <<>>
              THEN <<[frame[k] EXCEPT !.coordinates = NaN]>>
              ELSE [j \in 1..Len(frame[k].coordinates) |->
                      [frame[k] EXCEPT !.coordinates = frame[k].coordinates[j]]]])

\* shift(periods=-1) on both columns: the next row's values, NaN on the last
shift(frame) ==
    [k \in 1..Len(frame) |->
        [index |-> frame[k].index,
         GEOMETRYID |-> frame[k].GEOMETRYID,
         coordinates |-> frame[k].coordinates,
         next_GEOMETRYID |->
             IF k < Len(frame) THEN frame[k + 1].GEOMETRYID ELSE Null,
         next_coordinates |->
             IF k < Len(frame) THEN frame[k + 1].coordinates ELSE NaN]]

\* as below, without the comparison: every row but the last is kept
same_id_unless_last(row) == row.next_coordinates # NaN
\* df['GEOMETRYID'] == df['next_GEOMETRYID'], elementwise; a missing value
\* equals nothing
same_id(row) ==
    /\ row.GEOMETRYID # Null
    /\ row.next_GEOMETRYID # Null
    /\ row.GEOMETRYID = row.next_GEOMETRYID

\* lines 135-137
pair(frame) == SelectSeq(shift(frame), same_id)

\* DataFrame(column.tolist()) gives two columns only from a non-empty list
\* of [lon, lat] lists
splits(frame) ==
    /\ frame # <<>>
    /\ \A k \in 1..Len(frame) :
         frame[k].coordinates # NaN /\ frame[k].next_coordinates # NaN

\* lines 140-142
split_cols(frame) ==
    [k \in 1..Len(frame) |->
        [index |-> frame[k].index,
         GEOMETRYID |-> frame[k].GEOMETRYID,
         start_lon |-> frame[k].coordinates[1],
         start_lat |-> frame[k].coordinates[2],
         end_lon |-> frame[k].next_coordinates[1],
         end_lat |-> frame[k].next_coordinates[2]]]

\* lines 145-146
distance(frame) ==
    [k \in 1..Len(frame) |->
        [index |-> frame[k].index,
         GEOMETRYID |-> frame[k].GEOMETRYID,
         start_lon |-> frame[k].start_lon,
         start_lat |-> frame[k].start_lat,
         end_lon |-> frame[k].end_lon,
         end_lat |-> frame[k].end_lat,
         distance_mi |->
            haversine(frame[k].start_lat, frame[k].start_lon,
                      frame[k].end_lat, frame[k].end_lon)]]

RECURSIVE sorted(_)
sorted(S) ==
    IF S = {} THEN <<>>
    ELSE LET m == CHOOSE x \in S : \A y \in S : x <= y
         IN  <<m>> \o sorted(S \ {m})

RECURSIVE sum(_, _)
\* the sum of distance_mi over the rows of group g, in row order
sum(frame, g) ==
    IF frame = <<>> THEN 0
    ELSE (IF Head(frame).GEOMETRYID = g THEN Head(frame).distance_mi ELSE 0)
         + sum(Tail(frame), g)

\* as below, with first() for sum()
groupby_first_row(frame) ==
    LET keys == sorted({frame[k].GEOMETRYID : k \in 1..Len(frame)})
    IN  [n \in 1..Len(keys) |->
            [GEOMETRYID |-> keys[n],
             distance_mi |->
                 (CHOOSE row \in Range(frame) :
                     row.GEOMETRYID = keys[n]).distance_mi]]
\* df[[GEOMETRYID, distance_mi]].groupby([GEOMETRYID]).sum(); reset_index
groupby_sum(frame) ==
    LET keys == sorted({frame[k].GEOMETRYID : k \in 1..Len(frame)})
    IN  [n \in 1..Len(keys) |->
            [GEOMETRYID |-> keys[n], distance_mi |-> sum(frame, keys[n])]]

\* data = json.load(open(trails_file)); df = json_normalize(...)[[...]]
LoadTrails ==
    /\ pc = "load_trails" /\ exc = "none"
    /\ LET doc == fs[trails_file]
       IN  IF doc.kind = "absent"
           THEN exc' = "FileNotFoundError" /\ UNCHANGED <<pc, data, df>>
           ELSE IF ~doc.json
           THEN exc' = "JSONDecodeError" /\ UNCHANGED <<pc, data, df>>
           ELSE IF doc.kind # "features" \/ doc.trails = <<>>
           THEN exc' = "KeyError" /\ UNCHANGED <<pc, data, df>>
           ELSE /\ data' = doc.trails
                /\ df' = json_normalize(doc.trails)
                /\ pc' = goto("load_trails")
                /\ exc' = exc
    /\ UNCHANGED <<fs, fs0, r, reqs, stdout, writes, river, split_lines, i,
                   river_merged, df_sum>>

Explode ==
    /\ pc = "explode" /\ exc = "none"
    /\ df' = explode(df)
    /\ pc' = goto("explode")
    /\ UNCHANGED <<exc, fs, fs0, r, reqs, stdout, writes, river, split_lines,
                   i, river_merged, data, df_sum>>

Pair ==
    /\ pc = "pair" /\ exc = "none"
    /\ df' = pair(df)
    /\ pc' = goto("pair")
    /\ UNCHANGED <<exc, fs, fs0, r, reqs, stdout, writes, river, split_lines,
                   i, river_merged, data, df_sum>>

SplitCols ==
    /\ pc = "split_cols" /\ exc = "none"
    /\ IF splits(df)
       THEN df' = split_cols(df) /\ pc' = goto("split_cols") /\ exc' = exc
       ELSE exc' = "ValueError" /\ UNCHANGED <<pc, df>>
    /\ UNCHANGED <<fs, fs0, r, reqs, stdout, writes, river, split_lines, i,
                   river_merged, data, df_sum>>

Distance ==
    /\ pc = "distance" /\ exc = "none"
    /\ df' = distance(df)
    /\ pc' = goto("distance")
    /\ UNCHANGED <<exc, fs, fs0, r, reqs, stdout, writes, river, split_lines,
                   i, river_merged, data, df_sum>>

GroupBy ==
    /\ pc = "groupby" /\ exc = "none"
    /\ df_sum' = groupby_sum(df)
    /\ pc' = goto("groupby")
    /\ UNCHANGED <<exc, fs, fs0, r, reqs, stdout, writes, river, split_lines,
                   i, river_merged, data, df>>

\* df_sum.to_csv(trails_file_dist, index=False)
ToCsv ==
    /\ pc = "to_csv" /\ exc = "none"
    /\ fs' = [fs EXCEPT ![trails_file_dist] = CsvDoc(df_sum)]
    /\ writes' = Append(writes, trails_file_dist)
    /\ pc' = goto("to_csv")
    /\ UNCHANGED <<exc, fs0, r, reqs, stdout, river, split_lines, i,
                   river_merged, data, df, df_sum>>

(***************************************************************************)
(* Inputs.                                                                 *)
(***************************************************************************)
\* [lon, lat] in degrees; far enough apart for the fixed-point unit
Points == { <<0, 0>>, <<20, 10>> }
Ids == {Null, 1, 2}
LineIds == {1, 2}

\* A trails file of size m (one per record, one per coordinate) read as m
\* tokens: a token opens a record with its identifier, or is the next
\* coordinate of the record that is open.
TrailTokens ==
    {[start |-> TRUE, id |-> g, pt |-> NaN] : g \in Ids}
    \cup {[start |-> FALSE, id |-> Null, pt |-> p] : p \in Points}

TokenLists(m) ==
    {toks \in [1..m -> TrailTokens] : m > 0 => toks[1].start}

TrailsOf(toks) ==
    LET at == SelectSeq([k \in 1..Len(toks) |-> k], LAMBDA k : toks[k].start)
        last(j) == IF j < Len(at) THEN at[j + 1] - 1 ELSE Len(toks)
    IN  [j \in 1..Len(at) |->
            Trail(toks[at[j]].id,
                  [q \in 1..(last(j) - at[j]) |-> toks[at[j] + q].pt])]

RECURSIVE GeomsOfSize(_)
RECURSIVE GeomListsOfSize(_)
\* a geometry of n nodes: a line, or a multi-line of n - 1 nodes below it
GeomsOfSize(n) ==
    (IF n = 1 THEN {LineString(id) : id \in LineIds} ELSE {})
    \cup {MultiLineString(gs) : gs \in GeomListsOfSize(n - 1)}
GeomListsOfSize(m) ==
    IF m = 0 THEN {<<>>}
    ELSE UNION { {<<g>> \o rest : g \in GeomsOfSize(k),
                                  rest \in GeomListsOfSize(m - k)}
                 : k \in 1..m }

RiverInputs(n) == UNION {GeomListsOfSize(m) : m \in 0..n}

(***************************************************************************)
(* The run: the script from its first statement, in a working directory    *)
(* that holds nothing, or files of an earlier run, or files that are not   *)
(* GeoJSON.                                                                *)
(***************************************************************************)
StaleTrails == TrailsDoc(<<Trail(2, << <<20, 10>>, <<0, 0>> >>)>>, TrailsMinLen + 1)
StaleRiver == RiverDoc(<<LineString(1)>>, RiverMinLen + 1)

PriorDirs ==
    { [f \in Files |->
         CASE f = trails_file -> t
           [] f = river_file -> v
           [] f = river_file_merged ->
                IF old THEN MergedDoc(MultiLineString(<<LineString(1)>>))
                ELSE NoFile
           [] f = trails_file_dist ->
                IF old THEN CsvDoc(<<>>) ELSE NoFile]
      : t \in {NoFile, Html, StaleTrails},
        v \in {NoFile, Html, StaleRiver},
        old \in BOOLEAN }

Init ==
    /\ pc = "get_trails"
    /\ exc = "none"
    /\ fs0 \in PriorDirs
    /\ fs = fs0
    /\ r = NoResponse
    /\ reqs = <<>>
    /\ stdout = <<>>
    /\ writes = <<>>
    /\ river = <<>>
    /\ split_lines = <<>>
    /\ i = 0
    /\ river_merged = MultiLineString(<<>>)
    /\ data = <<>>
    /\ df = <<>>
    /\ df_sum = <<>>

Next ==
    \/ GetTrails
    \/ GetRiver
    \/ ReadRiver
    \/ SplitLoop
    \/ MergeRiver
    \/ LoadTrails
    \/ Explode
    \/ Pair
    \/ SplitCols
    \/ Distance
    \/ GroupBy
    \/ ToCsv

Spec == Init /\ [][Next]_vars

(***************************************************************************)
(* The river merge on every river file within MaxNodes: the run found the  *)
(* file in place and both downloads were turned down with a 404.           *)
(***************************************************************************)
NotFound == Response(404, Html)

InitAfterDownloads(dir) ==
    /\ exc = "none"
    /\ fs0 = dir
    /\ r = NotFound
    /\ reqs = <<"trail", "river">>
    /\ stdout = report(report(<<>>, "trail", NotFound, TrailsMinLen),
                       "river", NotFound, RiverMinLen)
    /\ data = <<>>
    /\ df = <<>>
    /\ df_sum = <<>>

InitRiver ==
    /\ pc = "read_river"
    /\ \E g \in RiverInputs(MaxNodes) :
          InitAfterDownloads(
              [f \in Files |->
                  IF f = river_file THEN RiverDoc(g, RiverMinLen + 1)
                  ELSE NoFile])
    /\ fs = fs0
    /\ writes = <<>>
    /\ river = <<>>
    /\ split_lines = <<>>
    /\ i = 0
    /\ river_merged = MultiLineString(<<>>)

NextRiver ==
    \/ ReadRiver
    \/ SplitLoop
    \/ MergeRiver

SpecRiver == InitRiver /\ [][NextRiver]_vars

(***************************************************************************)
(* The trail distances on every trails file within MaxSize: as above, and  *)
(* the river merge is done.                                                *)
(***************************************************************************)
InitTrail ==
    /\ pc = "load_trails"
    /\ \E m \in 0..MaxSize : \E toks \in TokenLists(m) :
          /\ InitAfterDownloads(
                 [f \in Files |->
                     CASE f = trails_file ->
                            TrailsDoc(TrailsOf(toks), TrailsMinLen + 1)
                       [] f = river_file -> StaleRiver
                       [] OTHER -> NoFile])
          /\ fs = [fs0 EXCEPT ![river_file_merged] =
                      MergedDoc(MultiLineString(StaleRiver.geoms))]
    /\ writes = <<river_file_merged>>
    /\ river = StaleRiver.geoms
    /\ split_lines = StaleRiver.geoms
    /\ i = 1
    /\ river_merged = MultiLineString(StaleRiver.geoms)

NextTrail ==
    \/ LoadTrails
    \/ Explode
    \/ Pair
    \/ SplitCols
    \/ Distance
    \/ GroupBy
    \/ ToCsv

SpecTrail == InitTrail /\ [][NextTrail]_vars

(***************************************************************************)
(* The haversine formula on one trail of HavPts coordinates of a grid      *)
(* that spans both hemispheres.                                            *)
(***************************************************************************)
HavPts == 3
Grid == {<<lon, lat>> : lon \in {-80, 0, 20}, lat \in {-60, 10, 45}}

InitHav ==
    /\ pc = "load_trails"
    /\ \E c \in [1..HavPts -> Grid] :
          /\ InitAfterDownloads(
                 [f \in Files |->
                     CASE f = trails_file ->
                            TrailsDoc(<<Trail(1, c)>>, TrailsMinLen + 1)
                       [] f = river_file -> StaleRiver
                       [] OTHER -> NoFile])
          /\ fs = [fs0 EXCEPT ![river_file_merged] =
                      MergedDoc(MultiLineString(StaleRiver.geoms))]
    /\ writes = <<river_file_merged>>
    /\ river = StaleRiver.geoms
    /\ split_lines = StaleRiver.geoms
    /\ i = 1
    /\ river_merged = MultiLineString(StaleRiver.geoms)

SpecHav == InitHav /\ [][NextTrail]_vars

(***************************************************************************)
(* Properties.                                                             *)
(***************************************************************************)
Written(name) == name \in Range(writes)
Sent(what) == Cardinality({k \in 1..Len(reqs) : reqs[k] = what})
Stopped == exc # "none"

\* the rows of the trails file in exploded order
Exploded == explode(json_normalize(data))

\* the frame holds the kept segments, as the pairing step left them
Paired == pc = "split_cols"

\* C1: every segment the pairing keeps joins two rows that are adjacent in
\* the exploded order and carry the same GEOMETRYID, and the last row of
\* the table starts no segment.
C1_KeptSegmentsJoinAdjacentSameId ==
    Paired =>
        /\ Len(df) < Len(Exploded)
        /\ \A n \in 1..Len(df) :
              /\ df[n].GEOMETRYID = df[n].next_GEOMETRYID
              /\ df[n].next_GEOMETRYID # Null
              /\ \E k \in 1..(Len(Exploded) - 1) :
                    /\ Exploded[k].index = df[n].index
                    /\ Exploded[k].GEOMETRYID = df[n].GEOMETRYID
                    /\ Exploded[k + 1].GEOMETRYID = df[n].GEOMETRYID
                    /\ Exploded[k].coordinates = df[n].coordinates
                    /\ Exploded[k + 1].coordinates = df[n].next_coordinates

\* every record has an identifier and at least one coordinate
Identified ==
    \A t \in 1..Len(data) :
        data[t].GEOMETRYID # Null /\ Len(data[t].coordinates) >= 1

\* a boundary between two different trails was met, and segments were kept
\* on both sides of it
C1_Witness ==
    /\ Paired
    /\ Identified
    /\ Len(data) = 2
    /\ data[1].GEOMETRYID # data[2].GEOMETRYID
    /\ Len(df) = 2
    /\ df[1].index = 0
    /\ df[2].index = 1

\* the segments that start in record t (0-based, the frame's index label)
SegmentsFrom(t) == {n \in 1..Len(df) : df[n].index = t}

\* C2: in a trails file whose records all have an identifier, a record of
\* N >= 1 coordinates gives exactly N - 1 segments: its last point starts
\* none.
C2_SegmentsPerRecord ==
    (Paired /\ Identified) =>
        \A t \in 1..Len(data) :
            Cardinality(SegmentsFrom(t - 1)) = Len(data[t].coordinates) - 1

(***************************************************************************)
(* The summary.                                                            *)
(***************************************************************************)
Summed == pc \in {"to_csv", "done"}

\* rows k and k + 1 of the exploded order are a segment of identifier g
IsSegment(k, g) ==
    /\ g # Null
    /\ Exploded[k].GEOMETRYID = g
    /\ Exploded[k + 1].GEOMETRYID = g

SegmentIds ==
    {g \in Ids : \E k \in 1..(Len(Exploded) - 1) : IsSegment(k, g)}

RECURSIVE SegmentMiles(_, _)
\* the great-circle miles of the segments of g among the first n rows
SegmentMiles(g, n) ==
    IF n <= 1 THEN 0
    ELSE SegmentMiles(g, n - 1)
         + (IF IsSegment(n - 1, g)
            THEN haversine(Exploded[n - 1].coordinates[2],
                           Exploded[n - 1].coordinates[1],
                           Exploded[n].coordinates[2],
                           Exploded[n].coordinates[1])
            ELSE 0)

SummaryIds == {df_sum[n].GEOMETRYID : n \in 1..Len(df_sum)}

SummaryTotals ==
    \A n \in 1..Len(df_sum) :
        df_sum[n].distance_mi = SegmentMiles(df_sum[n].GEOMETRYID, Len(Exploded))

InputIds == {data[t].GEOMETRYID : t \in 1..Len(data)} \ {Null}

C8_SinglePointNoRow ==
    Identified =>
        \A t \in 1..Len(data) :
            Len(data[t].coordinates) = 1 =>
                /\ Paired => SegmentsFrom(t - 1) = {}
                /\ Summed => data[t].GEOMETRYID \notin SummaryIds

(***************************************************************************)
(* haversine.                                                              *)
(***************************************************************************)
Measured == pc \in {"groupby", "to_csv", "done"}

SamePoint(row) == row.start_lon = row.end_lon /\ row.start_lat = row.end_lat

RECURSIVE MilesOfMoves(_)
\* the miles of the segments whose two ends differ
MilesOfMoves(frame) ==
    IF frame = <<>> THEN 0
    ELSE (IF SamePoint(Head(frame)) THEN 0 ELSE Head(frame).distance_mi)
         + MilesOfMoves(Tail(frame))

\* C9: haversine of a point and itself is 0, so a segment between two
\* identical consecutive coordinates adds nothing to its trail's total.
C9_SamePointZero ==
    /\ Measured =>
          \A n \in 1..Len(df) : SamePoint(df[n]) => df[n].distance_mi = 0
    /\ Summed =>
          /\ Len(df_sum) = 1
          /\ df_sum[1].distance_mi = MilesOfMoves(df)

\* a trail away from the origin that repeats its last point
C9_Witness ==
    /\ pc = "done"
    /\ Len(df) = 2
    /\ ~SamePoint(df[1])
    /\ SamePoint(df[2])
    /\ df[2].start_lon # 0
    /\ df[2].start_lat # 0
    /\ df_sum[1].distance_mi = df[1].distance_mi
    /\ df_sum[1].distance_mi > 0

(***************************************************************************)
(* The river merge.                                                        *)
(***************************************************************************)
RECURSIVE LinePaths(_)
\* where the lines of a list of geometries are: a path is the position in
\* the list, then the position in that multi-line, and so on down
LinePaths(gs) ==
    UNION { IF gs[k].geom_type = "LineString" THEN {<<k>>}
            ELSE {<<k>> \o p : p \in LinePaths(gs[k].geoms)}
            : k \in 1..Len(gs) }

RECURSIVE GeomAt(_, _)
GeomAt(gs, p) ==
    IF Len(p) = 1 THEN gs[p[1]] ELSE GeomAt(gs[p[1]].geoms, Tail(p))

\* p is met before q going depth-first, left to right
Before(p, q) ==
    \E j \in 1..Len(p) :
        /\ j <= Len(q)
        /\ p[j] < q[j]
        /\ \A h \in 1..(j - 1) : p[h] = q[h]

\* the geometries the loop has handled
Handled == SubSeq(river, 1, i)

Splitting == pc = "split_loop" \/ (pc = "load_trails" /\ river # <<>>)

\* C6: the flattened sequence holds no multi-line, holds every line of the
\* input exactly once, and lists them in depth-first encounter order.
C6_FlattenDepthFirst ==
    /\ Splitting =>
          LET paths == LinePaths(Handled)
          IN  /\ \A n \in 1..Len(split_lines) :
                    split_lines[n].geom_type = "LineString"
              /\ Len(split_lines) = Cardinality(paths)
              /\ \A p \in paths :
                    split_lines[Cardinality({q \in paths : Before(q, p)}) + 1]
                        = GeomAt(Handled, p)
    /\ pc = "load_trails" =>
          /\ i = Len(river)
          /\ river_merged = MultiLineString(split_lines)
          /\ fs[river_file_merged] = MergedDoc(river_merged)

\* a multi-line of one nested multi-line of 2 lines and one line gives 3
C6_Witness ==
    /\ pc = "load_trails"
    /\ river = <<MultiLineString(
                    <<MultiLineString(<<LineString(2), LineString(1)>>),
                      LineString(2)>>)>>
    /\ split_lines = <<LineString(2), LineString(1), LineString(2)>>

(***************************************************************************)
(* The downloads.                                                          *)
(***************************************************************************)
\* r is the response to the trails request and the script is past its if
TrailsAnswered ==
    \/ pc = "get_trails" /\ exc = "JSONDecodeError"
    \/ pc = "get_river" /\ exc \in {"none", "ConnectionError"}

\* r is the response to the river request and the script is past its if
RiverAnswered ==
    \/ pc = "get_river" /\ exc = "JSONDecodeError"
    \/ pc \notin {"get_trails", "get_river"}

\* the response parses and its serialised length is over min_len
LongEnough(resp, min_len) == resp.body.json /\ resp.body.serLen > min_len

\* C3: a download writes its file exactly when the status is 200 and the
\* serialised body is longer than the threshold, and then the file holds
\* the response text.
C3_WrittenIffAccepted ==
    /\ TrailsAnswered =>
          /\ Written(trails_file)
                <=> (r.status_code = 200 /\ LongEnough(r, TrailsMinLen))
          /\ Written(trails_file) => fs[trails_file] = r.body
    /\ RiverAnswered =>
          /\ Written(river_file)
                <=> (r.status_code = 200 /\ LongEnough(r, RiverMinLen))
          /\ Written(river_file) => fs[river_file] = r.body

\* the trails response was written over an older file, and the next one was
\* one character short
C3_Witness ==
    /\ pc = "read_river"
    /\ Written(trails_file)
    /\ fs[trails_file] # fs0[trails_file]
    /\ fs0[trails_file] # NoFile
    /\ r.status_code = 200
    /\ r.body.serLen = RiverMinLen
    /\ ~Written(river_file)

Diagnosed(what) ==
    \E n \in 1..Len(stdout) :
        /\ stdout[n].what = what
        /\ stdout[n].status_code = r.status_code
        /\ stdout[n].text = r.body

\* C4: a download that is not accepted prints a diagnostic with the status
\* code and the body, and the run goes on to the next step.
C4_RejectedIsDiagnosed ==
    /\ (TrailsAnswered /\ ~Written(trails_file)) =>
          Diagnosed("trail") /\ pc # "get_trails"
    /\ (RiverAnswered /\ ~Written(river_file)) =>
          Diagnosed("river") /\ pc # "get_river"

TrailsFailed == Sent("trail") > 0 /\ ~Written(trails_file)
RiverFailed == Sent("river") > 0 /\ ~Written(river_file)

\* C5: a failed download leaves its file as the run found it, is not tried
\* again, and the stage that reads the file reads what the run found.
C5_FailedDownloadLeavesFile ==
    /\ Sent("trail") <= 1
    /\ Sent("river") <= 1
    /\ TrailsFailed =>
          /\ fs[trails_file] = fs0[trails_file]
          /\ pc \in {"explode", "pair", "split_cols", "distance", "groupby",
                     "to_csv", "done"} => data = fs0[trails_file].trails
    /\ RiverFailed =>
          /\ fs[river_file] = fs0[river_file]
          /\ pc \notin {"get_trails", "get_river", "read_river"}
                => river = fs0[river_file].geoms

\* both downloads failed and the run went through on files of an older run
C5_Witness ==
    /\ pc = "done"
    /\ TrailsFailed
    /\ RiverFailed
    /\ data = StaleTrails.trails
    /\ river = StaleRiver.geoms
    /\ Len(stdout) = 2

(***************************************************************************)
(* The order of the stages.                                                *)
(***************************************************************************)
Rank(name) ==
    CASE name = trails_file -> 1
      [] name = river_file -> 2
      [] name = river_file_merged -> 3
      [] name = trails_file_dist -> 4

\* C10: trail download, river download, river merge, trail distance, in
\* that order; the summary is written only after the merged river, and not
\* at all when the river merge stops with an exception.
C10_SummaryAfterMerge ==
    /\ \A a, b \in 1..Len(writes) : a < b => Rank(writes[a]) < Rank(writes[b])
    /\ \A a \in 1..Len(reqs) : reqs[a] = (IF a = 1 THEN "trail" ELSE "river")
    /\ Written(trails_file_dist) => Written(river_file_merged)
    /\ Written(river_file_merged) => Sent("river") = 1
    /\ (Stopped /\ pc \in {"read_river", "split_loop"})
          => ~Written(trails_file_dist)

\* the trails download was written and is a feature collection, and the
\* river file cannot be read
C10_Witness ==
    /\ pc = "read_river"
    /\ exc = "DriverError"
    /\ Written(trails_file)
    /\ fs[trails_file].kind = "features"
    /\ fs[trails_file].trails # <<>>
    /\ ~Written(trails_file_dist)

====
